---- MODULE Spec2Model ----
(***************************************************************************)
(* Model of src/data_extraction.py: DataExtractor.run() and the methods it *)
(* calls.  One DataExtractor instance, driven through run(); the browser   *)
(* driver, the page and the file system are the environment, whose answers *)
(* are drawn nondeterministically at the call that consults them.          *)
(* Strings whose contents matter (card fields) are sequences of one        *)
(* character strings, so that split() and the cleaning act on characters.  *)
(***************************************************************************)
EXTENDS Integers, Sequences, FiniteSets, TLC

\* ------------------------------------------------------------------ bounds
MaxCeiling == 2       \* largest max_products argument tried
MaxData == 2          \* records the page lets a run store: it renders nothing new after that
MaxBatch == 2         \* cards rendered in one batch
MaxLen == 3           \* characters of a string handed to _clean_value on its own
MaxRuns == 2          \* run() calls on one DataExtractor

\* --------------------------------------------------------- program constants
max_scroll_attempts == 1000
max_no_new_items == 3
NoneInt == 0 - 1      \* max_products = None (an integer-typed stand-in)
None == "None"        \* an absent username / password

\* ------------------------------------------------------------------ strings
IsSpace(c) == c \in {" ", "\t"}
IsDigit(c) == c \in {"0", "1", "2", "3", "4", "5", "6", "7", "8", "9"}

\* `" " in value`
HasBlank(value) == \E i \in 1..Len(value) : value[i] = " "

\* str.split(): the maximal runs of non-whitespace characters, in order
RECURSIVE SplitFrom(_, _, _)
SplitFrom(value, i, cur) ==
  IF i > Len(value)
    THEN (IF cur = <<>> THEN <<>> ELSE <<cur>>)
    ELSE IF IsSpace(value[i])
      THEN (IF cur = <<>> THEN <<>> ELSE <<cur>>) \o SplitFrom(value, i + 1, <<>>)
      ELSE SplitFrom(value, i + 1, Append(cur, value[i]))

split(value) == SplitFrom(value, 1, <<>>)

\* any(char.isdigit() for char in part) or part.startswith('$')
LooksLikeValue(part) ==
  \/ \E i \in 1..Len(part) : IsDigit(part[i])
  \/ (Len(part) > 0 /\ part[1] = "$")

\* parts[0] on an empty list: IndexError
_clean_value_raises(value) == HasBlank(value) /\ split(value) = <<>>

\* _clean_value, where it returns
_clean_value(value) ==
  IF HasBlank(value)
    THEN LET parts == split(value)
             hits == {i \in 1..Len(parts) : LooksLikeValue(parts[i])}
         IN IF hits # {}
              THEN parts[CHOOSE i \in hits : \A j \in hits : i <= j]
              ELSE parts[1]
    ELSE value

\* -------------------------------------------------------------------- cards
\* The product objects the page script builds, one per rendered card; a
\* field the script did not find is the empty string (undefined in JS).
\* textContent.trim() leaves no blank at either end of a field.
CardA == [name |-> <<"A">>, id |-> <<"4", " ", "u">>, price |-> <<"$", "1", " ", "U">>,
          mass_kg |-> <<"3", " ", "k">>, score |-> <<"8">>]
CardC == [name |-> <<"C">>, id |-> <<"7">>, price |-> <<"$", "3">>,
          mass_kg |-> <<"6">>, score |-> <<"s", " ", "2">>]
CardD == [name |-> <<"D">>, id |-> <<"9">>, price |-> <<>>,
          mass_kg |-> <<"1">>, score |-> <<"1">>]
Cards == {CardA, CardC, CardD}

\* product.name && product.id && product.price && product.mass_kg && product.score
IsComplete(product) ==
  /\ product.name # <<>>
  /\ product.id # <<>>
  /\ product.price # <<>>
  /\ product.mass_kg # <<>>
  /\ product.score # <<>>

\* page.evaluate without the test of line 578: every card is returned
PageEvaluate_KeepsAll(list) == list

\* the array the page script returns: the complete products, in card order
RECURSIVE PageEvaluate(_)
PageEvaluate(list) ==
  IF list = <<>> THEN <<>>
  ELSE (IF IsComplete(Head(list)) THEN <<Head(list)>> ELSE <<>>)
       \o PageEvaluate(Tail(list))

\* what the page may have rendered when it is queried
Batches == UNION {[1..n -> Cards] : n \in 0..MaxBatch}

\* --------------------------------------------------------------- the merge
Truthy(n) == n # NoneInt /\ n # 0

\* len(self.data) < (self.max_products or float('inf'))
BelowCeiling(len, maxp) == IF Truthy(maxp) THEN len < maxp ELSE TRUE

\* self.max_products and len(self.data) >= self.max_products
LimitReached(len, maxp) == Truthy(maxp) /\ len >= maxp

ProductRaises(product) ==
  \/ _clean_value_raises(product.id)
  \/ _clean_value_raises(product.price)
  \/ _clean_value_raises(product.mass_kg)
  \/ _clean_value_raises(product.score)

CleanProduct(product) ==
  [name |-> product.name,
   id |-> _clean_value(product.id),
   price |-> _clean_value(product.price),
   mass_kg |-> _clean_value(product.mass_kg),
   score |-> _clean_value(product.score)]

\* the for loop of _extract_products_from_current_view over product_data_list;
\* raised is set when _clean_value raised, the loop ending there
RECURSIVE MergeProducts(_, _, _, _)
MergeProducts(list, d, ids, maxp) ==
  IF list = <<>> THEN [data |-> d, ids |-> ids, raised |-> FALSE]
  ELSE LET product == Head(list) IN
    IF product.id \notin ids /\ BelowCeiling(Len(d), maxp)
      THEN IF ProductRaises(product)
             THEN [data |-> d, ids |-> ids, raised |-> TRUE]
             ELSE MergeProducts(Tail(list), Append(d, CleanProduct(product)),
                                ids \cup {CleanProduct(product).id}, maxp)
      ELSE MergeProducts(Tail(list), d, ids, maxp)

\* ------------------------------------------------------------- environment
\* config.json on disk: absent, not JSON (content is then what the broken text
\* spells out), or a mapping; KeyAbsent marks a key the mapping does not hold
KeyAbsent == "<absent>"
EmptyMapping == [username |-> KeyAbsent, password |-> KeyAbsent]
ConfigMappings == [username : {KeyAbsent, "cfg_user"}, password : {KeyAbsent, "cfg_pass"}]
ConfigFiles ==
  {[state |-> "absent", content |-> EmptyMapping]}
  \cup [state : {"invalid", "ok"}, content : ConfigMappings]

\* _load_config: the parsed mapping, {} for an absent file or a JSONDecodeError
_load_config(file) == IF file.state = "ok" THEN file.content ELSE EmptyMapping

\* dict.get(key, default)
dict_get(mapping, key, default) ==
  IF mapping[key] = KeyAbsent THEN default ELSE mapping[key]

\* `not username`
Falsy(s) == s = None \/ s = ""

Usernames == {None, "arg_user"}
Passwords == {None, "arg_pass"}
Ceilings == {NoneInt} \cup (0..MaxCeiling)

\* the calls of run() followed: every combination of explicit credentials
\* and config file under one ceiling, and every ceiling under one
\* combination (the two do not meet in the code)
RunInputs ==
  [u : Usernames, p : Passwords, m : {1}, file : ConfigFiles]
  \cup [u : {"arg_user"}, p : {"arg_pass"}, m : Ceilings, file : {CHOOSE f \in ConfigFiles : f.state = "absent"}]

\* the four login indicators of _is_login_required, as the page shows them:
\* is_visible answers True, answers False, or raises
Indicators == 1..4
IndicatorStates == [Indicators -> {"visible", "hidden", "raises"}]

\* ProbeFrom with an except clause that leaves the loop: an indicator that
\* raises ends the probing with False
RECURSIVE ProbeFrom_RaiseStops(_, _)
ProbeFrom_RaiseStops(page, i) ==
  IF i > 4 THEN FALSE
  ELSE IF page[i] = "visible" THEN TRUE
  ELSE IF page[i] = "raises" THEN FALSE
  ELSE ProbeFrom_RaiseStops(page, i + 1)

\* the for loop of _is_login_required: the first indicator answering True
\* ends it; an indicator that raises is passed over
RECURSIVE ProbeFrom(_, _)
ProbeFrom(page, i) ==
  IF i > 4 THEN FALSE
  ELSE IF page[i] = "visible" THEN TRUE
  ELSE ProbeFrom(page, i + 1)

_is_login_required(page) == ProbeFrom(page, 1)

Heights == 1..2

\* -------------------------------------------------------------------- state
VARIABLES
  pc,                 \* where run() stands
  runs,               \* run() calls started so far
  data,               \* self.data
  max_products,       \* self.max_products
  arg_username, arg_password, \* the username and password run() was called with
  config_file,        \* config.json as _load_config found it, or "unread"
  username, password, \* run()'s credentials after the config lookup
  session_file,       \* session.json on disk: "absent", "valid", "malformed"
  browser,            \* "none", "open", "closed"
  error,              \* the exception in flight or raised by run(), or "none"
  trail,              \* the steps this run has carried out
  submits,            \* login form submissions in this run
  session_writes,     \* writes of the session file in this run
  close_calls,        \* browser.close() calls in this run
  nav_step,           \* traversal steps of _navigate_to_products finished
  extracted_ids,      \* _extract_product_data's extracted_ids
  scroll_attempts, no_new_items_count, last_height,
  iters,              \* loop iterations begun in this run
  output_file,        \* product_data.json: NoFile or the written array
  output_writes,      \* writes of the output file in this run
  result,             \* what the last finished run() returned
  cards,              \* the cards of the grid the last batch was read from
  nav_candidate,      \* candidates of the current traversal step probed so far
  nav_resolved,       \* the first of them _wait_for_selector found, 0 when none yet
  nav_clicked,        \* clicks of the current traversal step that returned
  clean_x,            \* the string _clean_value is tried on, on its own
  clean_out,          \* what its successive applications returned
  clean_raised,       \* whether an application raised
  probe_page,         \* the page _is_login_required is tried on, on its own
  probe_order,        \* an order of the four indicators
  probe_out           \* what the probing answered, once it has run

selfVars == <<data, max_products>>
credVars == <<arg_username, arg_password, config_file, username, password>>
loopVars == <<extracted_ids, scroll_attempts, no_new_items_count, last_height, iters>>
outVars == <<output_file, output_writes, result>>
runVars == <<pc, runs, data, max_products, arg_username, arg_password, config_file,
             username, password, session_file, browser,
             error, trail, submits, session_writes, close_calls, nav_step,
             extracted_ids, scroll_attempts, no_new_items_count, last_height, iters,
             output_file, output_writes, result, cards,
             nav_candidate, nav_resolved, nav_clicked>>
navVars == <<nav_candidate, nav_resolved, nav_clicked>>
cleanVars == <<clean_x, clean_out, clean_raised>>
probeVars == <<probe_page, probe_order, probe_out>>
vars == <<runVars, cleanVars, probeVars>>

Unread == [state |-> "unread", content |-> EmptyMapping]
NoFile == <<"<no file>">>
NoResult == <<"<no result>">>

\* DataExtractor.__init__, before the first run()
Constructed ==
  /\ pc = "idle"
  /\ runs = 0
  /\ data = <<>>
  /\ max_products = NoneInt
  /\ arg_username = None
  /\ arg_password = None
  /\ config_file = Unread
  /\ username = None
  /\ password = None
  /\ session_file \in {"absent", "valid", "malformed"}
  /\ browser = "none"
  /\ error = "none"
  /\ trail = {}
  /\ submits = 0
  /\ session_writes = 0
  /\ close_calls = 0
  /\ nav_step = 0
  /\ extracted_ids = {}
  /\ scroll_attempts = 0
  /\ no_new_items_count = 0
  /\ last_height = 0
  /\ iters = 0
  /\ output_file = NoFile
  /\ output_writes = 0
  /\ result = NoResult
  /\ cards = <<>>
  /\ nav_candidate = 0
  /\ nav_resolved = 0
  /\ nav_clicked = 0

\* no string is being cleaned on its own
CleanIdle ==
  /\ clean_x = <<>>
  /\ clean_out = <<>>
  /\ clean_raised = FALSE

\* no page is being probed on its own
ProbeIdle ==
  /\ probe_page = [i \in 1..4 |-> "hidden"]
  /\ probe_order = <<1, 2, 3, 4>>
  /\ probe_out = <<>>

Init == Constructed /\ CleanIdle /\ ProbeIdle

\* an exception inside the try block: except prints and re-raises, finally follows
Fail(e) == pc' = "finally" /\ error' = e

\* RunStart with the JSONDecodeError of _load_config left uncaught
RunStart_ConfigRaises ==
  /\ pc = "idle"
  /\ \E in \in RunInputs :
       /\ max_products' = in.m
       /\ arg_username' = in.u
       /\ arg_password' = in.p
       /\ IF Falsy(in.u) \/ Falsy(in.p)
            THEN LET config == _load_config(in.file) IN
                 /\ config_file' = in.file
                 /\ username' = dict_get(config, "username", in.u)
                 /\ password' = dict_get(config, "password", in.p)
                 /\ IF in.file.state = "invalid"
                      THEN pc' = "raised" /\ error' = "JSONDecodeError"
                      ELSE pc' = "launch" /\ error' = error
            ELSE /\ config_file' = Unread
                 /\ username' = in.u
                 /\ password' = in.p
                 /\ pc' = "launch"
                 /\ error' = error
  /\ runs' = runs + 1
  /\ UNCHANGED <<cleanVars, probeVars, navVars, cards, data, session_file, browser, trail, submits, session_writes,
                 close_calls, nav_step, loopVars, outVars>>

\* run(), lines 37-43: the ceiling is stored, and the config file is consulted
\* when a credential was not passed
RunStart ==
  /\ pc = "idle"
  /\ \E in \in RunInputs :
       /\ max_products' = in.m
       /\ arg_username' = in.u
       /\ arg_password' = in.p
       /\ IF Falsy(in.u) \/ Falsy(in.p)
            THEN LET config == _load_config(in.file) IN
                 /\ config_file' = in.file
                 /\ username' = dict_get(config, "username", in.u)
                 /\ password' = dict_get(config, "password", in.p)
            ELSE /\ config_file' = Unread
                 /\ username' = in.u
                 /\ password' = in.p
  /\ runs' = runs + 1
  /\ pc' = "launch"
  /\ UNCHANGED <<cleanVars, probeVars, navVars, cards, data, session_file, browser, error, trail, submits, session_writes,
                 close_calls, nav_step, loopVars, outVars>>

\* playwright.chromium.launch, line 47
Launch ==
  /\ pc = "launch"
  /\ browser' = "open"
  /\ trail' = trail \cup {"launched"}
  /\ pc' = "context"
  /\ UNCHANGED <<cleanVars, probeVars, navVars, cards, runs, selfVars, credVars, session_file, error, submits, session_writes,
                 close_calls, nav_step, loopVars, outVars>>

\* browser.new_context, lines 51-56, outside the try block: a session file
\* that is there is handed to the driver, which raises on one it cannot read
NewContext ==
  /\ pc = "context"
  /\ IF session_file = "malformed"
       THEN /\ pc' = "raised"
            /\ error' = "SessionLoadError"
            /\ trail' = trail
       ELSE /\ pc' = "page"
            /\ error' = error
            /\ trail' = trail \cup {IF session_file = "valid" THEN "context_restored"
                                                              ELSE "context_fresh"}
  /\ UNCHANGED <<cleanVars, probeVars, navVars, cards, runs, selfVars, credVars, session_file, browser, submits,
                 session_writes, close_calls, nav_step, loopVars, outVars>>

\* context.new_page, lines 58-60, outside the try block
NewPage ==
  /\ pc = "page"
  /\ pc' = "goto"
  /\ UNCHANGED <<cleanVars, probeVars, navVars, cards, runs, selfVars, credVars, session_file, browser, error, trail, submits,
                 session_writes, close_calls, nav_step, loopVars, outVars>>

NewPageFails ==
  /\ pc = "page"
  /\ pc' = "raised"
  /\ error' = "DriverError"
  /\ UNCHANGED <<cleanVars, probeVars, navVars, cards, runs, selfVars, credVars, session_file, browser, trail, submits,
                 session_writes, close_calls, nav_step, loopVars, outVars>>

\* page.goto(self.url) and the wait for network idle, lines 64-66
Goto ==
  /\ pc = "goto"
  /\ pc' = "login_check"
  /\ UNCHANGED <<cleanVars, probeVars, navVars, cards, runs, selfVars, credVars, session_file, browser, error, trail, submits,
                 session_writes, close_calls, nav_step, loopVars, outVars>>

GotoFails ==
  /\ pc = "goto"
  /\ Fail("NavigationError")
  /\ UNCHANGED <<cleanVars, probeVars, navVars, cards, runs, selfVars, credVars, session_file, browser, trail, submits,
                 session_writes, close_calls, nav_step, loopVars, outVars>>

\* LoginCheck without the credentials test of line 71
LoginCheck_NoCredentialTest ==
  /\ pc = "login_check"
  /\ \E page \in IndicatorStates :
       IF _is_login_required(page)
         THEN /\ trail' = trail \cup {"login_required"}
              /\ pc' = "login"
              /\ error' = error
         ELSE /\ trail' = trail \cup {"login_not_required"}
              /\ pc' = "challenge"
              /\ error' = error
  /\ UNCHANGED <<cleanVars, probeVars, navVars, cards, runs, selfVars, credVars, session_file, browser, submits,
                 session_writes, close_calls, nav_step, loopVars, outVars>>

\* LoginCheck with the credentials test made before the page is consulted
LoginCheck_CredentialsFirst ==
  /\ pc = "login_check"
  /\ \E page \in IndicatorStates :
       IF Falsy(username) \/ Falsy(password)
         THEN /\ trail' = trail \cup {IF _is_login_required(page) THEN "login_required"
                                                                 ELSE "login_not_required"}
              /\ Fail("ValueError")
         ELSE IF _is_login_required(page)
           THEN /\ trail' = trail \cup {"login_required"}
                /\ pc' = "login"
                /\ error' = error
           ELSE /\ trail' = trail \cup {"login_not_required"}
                /\ pc' = "challenge"
                /\ error' = error
  /\ UNCHANGED <<cleanVars, probeVars, navVars, cards, runs, selfVars, credVars, session_file, browser, submits,
                 session_writes, close_calls, nav_step, loopVars, outVars>>

\* lines 69-73: _is_login_required on the loaded page, then the credentials test
LoginCheck ==
  /\ pc = "login_check"
  /\ \E page \in IndicatorStates :
       IF _is_login_required(page)
         THEN /\ trail' = trail \cup {"login_required"}
              /\ IF Falsy(username) \/ Falsy(password)
                   THEN Fail("ValueError")
                   ELSE pc' = "login" /\ error' = error
         ELSE /\ trail' = trail \cup {"login_not_required"}
              /\ pc' = "challenge"
              /\ error' = error
  /\ UNCHANGED <<cleanVars, probeVars, navVars, cards, runs, selfVars, credVars, session_file, browser, submits,
                 session_writes, close_calls, nav_step, loopVars, outVars>>

\* _login without the verification of lines 163-164
Login_Unverified ==
  /\ pc = "login"
  /\ \E outcome \in {"fill_raises", "click_raises", "settle_raises", "settled"},
        page \in IndicatorStates :
       CASE outcome = "fill_raises" ->
              /\ Fail("DriverError")
              /\ trail' = trail
              /\ submits' = submits
         [] outcome = "click_raises" ->
              /\ Fail("DriverError")
              /\ trail' = trail \cup {"filled"}
              /\ submits' = submits
         [] outcome = "settle_raises" ->
              /\ Fail("TimeoutError")
              /\ trail' = trail \cup {"filled", "submitted"}
              /\ submits' = submits + 1
         [] outcome = "settled" ->
              /\ trail' = trail \cup {"filled", "submitted"} \cup
                            (IF _is_login_required(page) THEN {"still_required"} ELSE {})
              /\ submits' = submits + 1
              /\ pc' = "save_session"
              /\ error' = error
  /\ UNCHANGED <<cleanVars, probeVars, navVars, cards, runs, selfVars, credVars, session_file, browser,
                 session_writes, close_calls, nav_step, loopVars, outVars>>

\* _login submitting again when the login form is still shown
Login_Retries ==
  /\ pc = "login"
  /\ \E outcome \in {"fill_raises", "click_raises", "settle_raises", "settled"},
        page \in IndicatorStates :
       CASE outcome = "fill_raises" ->
              /\ Fail("DriverError")
              /\ trail' = trail
              /\ submits' = submits
         [] outcome = "click_raises" ->
              /\ Fail("DriverError")
              /\ trail' = trail \cup {"filled"}
              /\ submits' = submits
         [] outcome = "settle_raises" ->
              /\ Fail("TimeoutError")
              /\ trail' = trail \cup {"filled", "submitted"}
              /\ submits' = submits + 1
         [] outcome = "settled" ->
              /\ trail' = trail \cup {"filled", "submitted"}
              /\ submits' = submits + 1
              /\ error' = error
              /\ pc' = IF _is_login_required(page) /\ submits < 2
                         THEN "login" ELSE "save_session"
  /\ UNCHANGED <<cleanVars, probeVars, navVars, cards, runs, selfVars, credVars, session_file, browser,
                 session_writes, close_calls, nav_step, loopVars, outVars>>

\* _login, lines 153-164: two fills, the click on the submit control, the
\* settle wait, and the second _is_login_required; any of the driver calls
\* may raise
Login ==
  /\ pc = "login"
  /\ \E outcome \in {"fill_raises", "click_raises", "settle_raises", "settled"},
        page \in IndicatorStates :
       CASE outcome = "fill_raises" ->
              /\ Fail("DriverError")
              /\ trail' = trail
              /\ submits' = submits
         [] outcome = "click_raises" ->
              /\ Fail("DriverError")
              /\ trail' = trail \cup {"filled"}
              /\ submits' = submits
         [] outcome = "settle_raises" ->
              /\ Fail("TimeoutError")
              /\ trail' = trail \cup {"filled", "submitted"}
              /\ submits' = submits + 1
         [] outcome = "settled" ->
              /\ trail' = trail \cup {"filled", "submitted"} \cup
                            (IF _is_login_required(page) THEN {"still_required"} ELSE {})
              /\ submits' = submits + 1
              /\ IF _is_login_required(page)
                   THEN Fail("LoginFailed")
                   ELSE pc' = "save_session" /\ error' = error
  /\ UNCHANGED <<cleanVars, probeVars, navVars, cards, runs, selfVars, credVars, session_file, browser,
                 session_writes, close_calls, nav_step, loopVars, outVars>>

\* context.storage_state(path=session_file), line 75
SaveSession ==
  /\ pc = "save_session"
  /\ session_file' = "valid"
  /\ session_writes' = session_writes + 1
  /\ trail' = trail \cup {"session_saved"}
  /\ pc' = "challenge"
  /\ UNCHANGED <<cleanVars, probeVars, navVars, cards, runs, selfVars, credVars, browser, error, submits,
                 close_calls, nav_step, loopVars, outVars>>

SaveSessionFails ==
  /\ pc = "save_session"
  /\ Fail("DriverError")
  /\ UNCHANGED <<cleanVars, probeVars, navVars, cards, runs, selfVars, credVars, session_file, browser, trail, submits,
                 session_writes, close_calls, nav_step, loopVars, outVars>>

\* page.goto(url/challenge) and the waits, lines 80-82
GotoChallenge ==
  /\ pc = "challenge"
  /\ trail' = trail \cup {"challenge"}
  /\ pc' = "navigate"
  /\ UNCHANGED <<cleanVars, probeVars, navVars, cards, runs, selfVars, credVars, session_file, browser, error, submits,
                 session_writes, close_calls, nav_step, loopVars, outVars>>

GotoChallengeFails ==
  /\ pc = "challenge"
  /\ Fail("NavigationError")
  /\ UNCHANGED <<cleanVars, probeVars, navVars, cards, runs, selfVars, credVars, session_file, browser, trail, submits,
                 session_writes, close_calls, nav_step, loopVars, outVars>>

\* _navigate_to_products: five traversal steps, each a cascade of candidate
\* selectors (lines 171-178, 194-200, 216-221, 237-244, 260-266)
NumSteps == 5
Candidates == <<6, 5, 4, 6, 5>>

\* what a selector finds on the page
ElementStates == {"visible", "present", "missing"}

\* lines 285-293: TRUE when the element becomes visible, and on a timeout
\* when the locator still counts an element
_wait_for_selector(element) ==
  IF element = "visible" THEN TRUE ELSE element = "present"

\* NavProbe without the break of line 186: the loop goes on after a click that returned
NavProbe_NoBreak ==
  /\ pc = "navigate"
  /\ nav_step < NumSteps
  /\ nav_candidate < Candidates[nav_step + 1]
  /\ nav_candidate' = nav_candidate + 1
  /\ \E element \in ElementStates, click_ok \in BOOLEAN :
       IF _wait_for_selector(element)
         THEN /\ nav_resolved' = IF nav_resolved = 0 THEN nav_candidate' ELSE nav_resolved
              /\ nav_clicked' = IF click_ok THEN nav_clicked + 1 ELSE nav_clicked
              /\ pc' = IF nav_candidate' = Candidates[nav_step + 1]
                         THEN "settle" ELSE "navigate"
         ELSE /\ nav_resolved' = nav_resolved
              /\ nav_clicked' = nav_clicked
              /\ pc' = IF nav_candidate' = Candidates[nav_step + 1]
                         THEN "settle" ELSE "navigate"
  /\ UNCHANGED <<cleanVars, probeVars, cards, runs, selfVars, credVars, session_file, browser, error, trail,
                 submits, session_writes, close_calls, nav_step, loopVars, outVars>>

\* one turn of a cascade's for loop (lines 181-188 and their four likes):
\* the next candidate is probed; when it is found it is clicked and the
\* loop is left, unless the click raises: the bare except then goes on with
\* the following candidate, as it does when the probe itself raises
NavProbe ==
  /\ pc = "navigate"
  /\ nav_step < NumSteps
  /\ nav_candidate < Candidates[nav_step + 1]
  /\ nav_candidate' = nav_candidate + 1
  /\ \E element \in ElementStates, click_ok \in BOOLEAN :
       IF _wait_for_selector(element)
         THEN /\ nav_resolved' = IF nav_resolved = 0 THEN nav_candidate' ELSE nav_resolved
              /\ nav_clicked' = IF click_ok THEN nav_clicked + 1 ELSE nav_clicked
              /\ pc' = IF click_ok \/ nav_candidate' = Candidates[nav_step + 1]
                         THEN "settle" ELSE "navigate"
         ELSE /\ nav_resolved' = nav_resolved
              /\ nav_clicked' = nav_clicked
              /\ pc' = IF nav_candidate' = Candidates[nav_step + 1]
                         THEN "settle" ELSE "navigate"
  /\ UNCHANGED <<cleanVars, probeVars, cards, runs, selfVars, credVars, session_file, browser, error, trail,
                 submits, session_writes, close_calls, nav_step, loopVars, outVars>>

\* page.wait_for_load_state("networkidle") and the sleep after a cascade
\* (lines 190-191 and their likes): the step is over
NavStep ==
  /\ pc = "settle"
  /\ nav_step' = nav_step + 1
  /\ nav_candidate' = 0
  /\ nav_resolved' = 0
  /\ nav_clicked' = 0
  /\ trail' = trail \cup {"navigated"}
  /\ pc' = IF nav_step' = NumSteps THEN "extract" ELSE "navigate"
  /\ UNCHANGED <<cleanVars, probeVars, cards, runs, selfVars, credVars, session_file, browser, error, submits,
                 session_writes, close_calls, loopVars, outVars>>

\* page.wait_for_load_state("networkidle") after a cascade raises
NavStepFails ==
  /\ pc = "settle"
  /\ nav_candidate' = 0
  /\ nav_resolved' = 0
  /\ nav_clicked' = 0
  /\ trail' = trail \cup {"navigated"}
  /\ Fail("TimeoutError")
  /\ UNCHANGED <<cleanVars, probeVars, cards, runs, selfVars, credVars, session_file, browser, submits,
                 session_writes, close_calls, nav_step, loopVars, outVars>>

\* _extract_product_data, lines 420-438: the grid is visible and the loop's
\* variables are initialised
ExtractStart ==
  /\ pc = "extract"
  /\ \E h \in Heights : last_height' = h
  /\ extracted_ids' = {}
  /\ scroll_attempts' = 0
  /\ no_new_items_count' = 0
  /\ iters' = 0
  /\ trail' = trail \cup {"grid_visible"}
  /\ pc' = "loop"
  /\ UNCHANGED <<cleanVars, probeVars, navVars, cards, runs, selfVars, credVars, session_file, browser, error, submits,
                 session_writes, close_calls, nav_step, outVars>>

\* ExtractTimeout with the TimeoutError leaving _extract_product_data
ExtractTimeout_Propagates ==
  /\ pc = "extract"
  /\ trail' = trail \cup {"grid_timeout"}
  /\ Fail("TimeoutError")
  /\ UNCHANGED <<cleanVars, probeVars, navVars, cards, runs, selfVars, credVars, session_file, browser, submits,
                 session_writes, close_calls, nav_step, loopVars, outVars>>

\* lines 426-428: TimeoutError waiting for the grid, the method returns
ExtractTimeout ==
  /\ pc = "extract"
  /\ trail' = trail \cup {"grid_timeout"}
  /\ pc' = "export"
  /\ UNCHANGED <<cleanVars, probeVars, navVars, cards, runs, selfVars, credVars, session_file, browser, error, submits,
                 session_writes, close_calls, nav_step, loopVars, outVars>>

\* the while condition of line 441
LoopCondition == scroll_attempts < max_scroll_attempts /\ no_new_items_count < max_no_new_items

\* lines 441-444: the while test and the limit test at the top of the body
LoopCheck ==
  /\ pc = "loop"
  /\ IF LoopCondition /\ ~LimitReached(Len(data), max_products)
       THEN /\ iters' = iters + 1
            /\ pc' = "batch"
       ELSE /\ iters' = iters
            /\ pc' = "loop_done"
  /\ UNCHANGED <<cleanVars, probeVars, navVars, cards, runs, selfVars, credVars, session_file, browser, error, trail, submits,
                 session_writes, close_calls, nav_step, extracted_ids, scroll_attempts,
                 no_new_items_count, last_height, outVars>>

\* ExtractBatch with an empty-batch counter that a batch with new records leaves alone
ExtractBatch_NeverResets ==
  /\ pc = "batch"
  /\ \E rendered \in Batches :
       LET merged == MergeProducts(PageEvaluate(rendered), data, extracted_ids, max_products)
           new_items_in_batch == Len(merged.data) - Len(data)
       IN /\ Len(merged.data) <= MaxData
          /\ cards' = rendered
          /\ data' = merged.data
          /\ extracted_ids' = merged.ids
          /\ IF merged.raised
               THEN /\ Fail("IndexError")
                    /\ no_new_items_count' = no_new_items_count
               ELSE /\ no_new_items_count' =
                         (IF new_items_in_batch = 0 THEN no_new_items_count + 1 ELSE no_new_items_count)
                    /\ error' = error
                    /\ pc' = IF LimitReached(Len(data'), max_products)
                               THEN "loop_done" ELSE "scroll"
  /\ trail' = trail \cup {"extracted"}
  /\ UNCHANGED <<cleanVars, probeVars, navVars, runs, max_products, credVars, session_file, browser, submits,
                 session_writes, close_calls, nav_step, scroll_attempts, last_height,
                 iters, outVars>>

\* lines 447-462: the batch is extracted and merged, the empty-batch counter
\* is updated, the limit is tested
ExtractBatch ==
  /\ pc = "batch"
  /\ \E rendered \in Batches :
       LET merged == MergeProducts(PageEvaluate(rendered), data, extracted_ids, max_products)
           new_items_in_batch == Len(merged.data) - Len(data)
       IN /\ Len(merged.data) <= MaxData
          /\ cards' = rendered
          /\ data' = merged.data
          /\ extracted_ids' = merged.ids
          /\ IF merged.raised
               THEN /\ Fail("IndexError")
                    /\ no_new_items_count' = no_new_items_count
               ELSE /\ no_new_items_count' =
                         (IF new_items_in_batch = 0 THEN no_new_items_count + 1 ELSE 0)
                    /\ error' = error
                    /\ pc' = IF LimitReached(Len(data'), max_products)
                               THEN "loop_done" ELSE "scroll"
  /\ trail' = trail \cup {"extracted"}
  /\ UNCHANGED <<cleanVars, probeVars, navVars, runs, max_products, credVars, session_file, browser, submits,
                 session_writes, close_calls, nav_step, scroll_attempts, last_height,
                 iters, outVars>>

\* page.evaluate raises while the batch is read
ExtractBatchFails ==
  /\ pc = "batch"
  /\ Fail("DriverError")
  /\ UNCHANGED <<cleanVars, probeVars, navVars, cards, runs, selfVars, credVars, session_file, browser, trail, submits,
                 session_writes, close_calls, nav_step, loopVars, outVars>>

\* lines 465-480: scroll to the bottom, measure, update the no-growth counter
Scroll ==
  /\ pc = "scroll"
  /\ \E new_height \in Heights :
       IF new_height = last_height
         THEN /\ scroll_attempts' = scroll_attempts + 1
              /\ last_height' = last_height
         ELSE /\ scroll_attempts' = 0
              /\ last_height' = new_height
  /\ trail' = trail \cup {"scrolled"}
  /\ pc' = "loop"
  /\ cards' = <<>>
  /\ UNCHANGED <<cleanVars, probeVars, navVars, runs, selfVars, credVars, session_file, browser, error, submits,
                 session_writes, close_calls, nav_step, extracted_ids,
                 no_new_items_count, iters, outVars>>

ScrollFails ==
  /\ pc = "scroll"
  /\ Fail("DriverError")
  /\ cards' = <<>>
  /\ UNCHANGED <<cleanVars, probeVars, navVars, runs, selfVars, credVars, session_file, browser, trail, submits,
                 session_writes, close_calls, nav_step, loopVars, outVars>>

\* lines 482-486: the loop is over, _extract_product_data returns
LoopDone ==
  /\ pc = "loop_done"
  /\ pc' = "export"
  /\ cards' = <<>>
  /\ UNCHANGED <<cleanVars, probeVars, navVars, runs, selfVars, credVars, session_file, browser, error, trail, submits,
                 session_writes, close_calls, nav_step, loopVars, outVars>>

\* Export writing the records last accepted first
Export_Reversed ==
  /\ pc = "export"
  /\ output_file' = [i \in 1..Len(data) |-> data[Len(data) + 1 - i]]
  /\ output_writes' = output_writes + 1
  /\ trail' = trail \cup {"exported"}
  /\ pc' = "finally"
  /\ UNCHANGED <<cleanVars, probeVars, navVars, cards, runs, selfVars, credVars, session_file, browser, error, submits,
                 session_writes, close_calls, nav_step, loopVars, result>>

\* _export_data, lines 622-623
Export ==
  /\ pc = "export"
  /\ output_file' = data
  /\ output_writes' = output_writes + 1
  /\ trail' = trail \cup {"exported"}
  /\ pc' = "finally"
  /\ UNCHANGED <<cleanVars, probeVars, navVars, cards, runs, selfVars, credVars, session_file, browser, error, submits,
                 session_writes, close_calls, nav_step, loopVars, result>>

\* open() raises
ExportFails ==
  /\ pc = "export"
  /\ Fail("OSError")
  /\ UNCHANGED <<cleanVars, probeVars, navVars, cards, runs, selfVars, credVars, session_file, browser, trail, submits,
                 session_writes, close_calls, nav_step, loopVars, outVars>>

\* lines 102-106: finally closes the browser; then run() returns self.data or
\* the exception in flight leaves run().  An exception raised by close()
\* itself is the one that leaves.
Close ==
  /\ pc = "finally"
  /\ browser' = "closed"
  /\ close_calls' = close_calls + 1
  /\ \E closed_ok \in BOOLEAN :
       IF closed_ok
         THEN /\ error' = error
              /\ pc' = IF error = "none" THEN "returned" ELSE "raised"
              /\ result' = IF error = "none" THEN data ELSE result
         ELSE /\ error' = "CloseError"
              /\ pc' = "raised"
              /\ result' = result
  /\ UNCHANGED <<cleanVars, probeVars, navVars, cards, runs, selfVars, credVars, session_file, trail, submits,
                 session_writes, nav_step, loopVars, output_file, output_writes>>

Next ==
  \/ RunStart
  \/ Launch
  \/ NewContext
  \/ NewPage
  \/ NewPageFails
  \/ Goto
  \/ GotoFails
  \/ LoginCheck
  \/ Login
  \/ SaveSession
  \/ SaveSessionFails
  \/ GotoChallenge
  \/ GotoChallengeFails
  \/ NavProbe
  \/ NavStep
  \/ NavStepFails
  \/ ExtractStart
  \/ ExtractTimeout
  \/ LoopCheck
  \/ ExtractBatch
  \/ ExtractBatchFails
  \/ Scroll
  \/ ScrollFails
  \/ LoopDone
  \/ Export
  \/ ExportFails
  \/ Close

Spec == Init /\ [][Next]_vars

\* ------------------------------------------- run() called more than once
\* the arguments of the repeated calls: explicit credentials, no ceiling or
\* the ceiling 1
RerunInputs ==
  [u : {"arg_user"}, p : {"arg_pass"}, m : {NoneInt, 1},
   file : {CHOOSE f \in ConfigFiles : f.state = "absent"}]

\* run(), lines 33-43, on an instance that may have run before: the ceiling
\* is stored and the credentials are looked up; self.data, the session file
\* and the output file are what the earlier call left, the locals and the
\* browser of the earlier call are gone, and what is recorded of a run
\* (trail, counters, error, result) starts afresh
RunAgain ==
  /\ pc \in {"idle", "returned", "raised"}
  /\ runs < MaxRuns
  /\ \E in \in RerunInputs :
       /\ max_products' = in.m
       /\ arg_username' = in.u
       /\ arg_password' = in.p
       /\ IF Falsy(in.u) \/ Falsy(in.p)
            THEN LET config == _load_config(in.file) IN
                 /\ config_file' = in.file
                 /\ username' = dict_get(config, "username", in.u)
                 /\ password' = dict_get(config, "password", in.p)
            ELSE /\ config_file' = Unread
                 /\ username' = in.u
                 /\ password' = in.p
  /\ runs' = runs + 1
  /\ pc' = "launch"
  /\ browser' = "none" /\ error' = "none" /\ trail' = {}
  /\ submits' = 0 /\ session_writes' = 0 /\ close_calls' = 0 /\ output_writes' = 0
  /\ nav_step' = 0 /\ nav_candidate' = 0 /\ nav_resolved' = 0 /\ nav_clicked' = 0
  /\ extracted_ids' = {} /\ scroll_attempts' = 0 /\ no_new_items_count' = 0
  /\ last_height' = 0 /\ iters' = 0 /\ cards' = <<>>
  /\ result' = NoResult
  /\ UNCHANGED <<cleanVars, probeVars, data, session_file, output_file>>

NextRerun ==
  \/ RunAgain
  \/ Launch
  \/ NewContext
  \/ NewPage
  \/ NewPageFails
  \/ Goto
  \/ GotoFails
  \/ LoginCheck
  \/ Login
  \/ SaveSession
  \/ SaveSessionFails
  \/ GotoChallenge
  \/ GotoChallengeFails
  \/ NavProbe
  \/ NavStep
  \/ NavStepFails
  \/ ExtractStart
  \/ ExtractTimeout
  \/ LoopCheck
  \/ ExtractBatch
  \/ ExtractBatchFails
  \/ Scroll
  \/ ScrollFails
  \/ LoopDone
  \/ Export
  \/ ExportFails
  \/ Close

SpecRerun == Init /\ [][NextRerun]_vars

\* ------------------------------------------------ _clean_value on its own
\* the strings tried: digits, letters, the dollar sign, blanks and tabs
CleanAlphabet == {"4", "u", "$", " ", "\t"}
CleanInputs == UNION {[1..n -> CleanAlphabet] : n \in 0..MaxLen}

InitClean ==
  /\ Constructed
  /\ ProbeIdle
  /\ session_file = "absent"
  /\ clean_x \in CleanInputs
  /\ clean_out = <<>>
  /\ clean_raised = FALSE

\* _clean_value applied to the string, then to what it returned
ApplyClean ==
  /\ ~clean_raised
  /\ Len(clean_out) < 2
  /\ LET value == IF clean_out = <<>> THEN clean_x ELSE clean_out[Len(clean_out)]
     IN IF _clean_value_raises(value)
          THEN clean_raised' = TRUE /\ clean_out' = clean_out
          ELSE clean_raised' = FALSE /\ clean_out' = Append(clean_out, _clean_value(value))
  /\ UNCHANGED <<runVars, probeVars, clean_x>>

NextClean == ApplyClean

SpecClean == InitClean /\ [][NextClean]_vars

\* ------------------------------------------ _is_login_required on its own
\* the orders in which the four indicators can be listed
IndicatorOrders ==
  {order \in [Indicators -> Indicators] : \A i, j \in Indicators : i # j => order[i] # order[j]}

\* the for loop of lines 137-143 over the indicators listed in a given order
RECURSIVE ProbeInOrder(_, _, _)
ProbeInOrder(page, order, k) ==
  IF k > 4 THEN FALSE
  ELSE IF page[order[k]] = "visible" THEN TRUE
  ELSE ProbeInOrder(page, order, k + 1)

\* the number of indicators the loop of lines 137-143 probes before it ends
RECURSIVE ProbesMade(_, _)
ProbesMade(page, i) ==
  IF i >= 4 THEN 4
  ELSE IF page[i] = "visible" THEN i
  ELSE ProbesMade(page, i + 1)

InitProbe ==
  /\ Constructed
  /\ CleanIdle
  /\ session_file = "absent"
  /\ probe_page \in IndicatorStates
  /\ probe_order \in IndicatorOrders
  /\ probe_out = <<>>

\* _is_login_required applied to the page, with the indicators as listed
\* and in the other order
ApplyProbe ==
  /\ probe_out = <<>>
  /\ probe_out' = <<[result |-> _is_login_required(probe_page),
                     reordered |-> ProbeInOrder(probe_page, probe_order, 1),
                     probes |-> ProbesMade(probe_page, 1)]>>
  /\ UNCHANGED <<runVars, cleanVars, probe_page, probe_order>>

NextProbe == ApplyProbe

SpecProbe == InitProbe /\ [][NextProbe]_vars

\* =================================================================== claims
Finished == pc \in {"returned", "raised"}
MissingCredentials == Falsy(username) \/ Falsy(password)
AfterLogin == {"challenge", "navigated", "grid_visible", "grid_timeout", "extracted",
               "scrolled", "exported"}

\* C1: no two records stored in self.data share the same id.
C1_Uniqueness ==
  \A i, j \in 1..Len(data) : i # j => data[i].id # data[j].id

\* C2: for every non-negative integer ceiling (0 included) the number of
\* records in self.data, and in the exported file, never exceeds max_products.
C2_Ceiling ==
  max_products # NoneInt =>
    /\ Len(data) <= max_products
    /\ (output_file # NoFile => Len(output_file) <= max_products)

\* C3: the pagination loop terminates after a bounded number of iterations
\* for every ceiling setting: under an integer ceiling c (0 included) it
\* begins at most 3c + 1 iterations, since any three consecutive iterations
\* either store a record or end the loop and the loop ends once c records
\* are stored; and when it has stopped, the stored count has reached the
\* ceiling, the empty-batch counter is 3 or the no-growth counter is 1000.
C3_Termination ==
  /\ max_products # NoneInt => iters <= 3 * max_products + 1
  /\ pc = "loop_done" =>
       \/ (max_products # NoneInt /\ Len(data) >= max_products)
       \/ no_new_items_count = max_no_new_items
       \/ scroll_attempts = max_scroll_attempts

\* C4: in every execution of run() that launched the browser, browser.close()
\* has been invoked when run() returns or raises, whichever step failed.
C4_BrowserRelease ==
  (Finished /\ "launched" \in trail) => (close_calls >= 1 /\ browser = "closed")

\* C5: a session file that is there but malformed is treated as absent: the
\* run goes on with a fresh context and does not raise because of the file.
C5_SessionLoadNonFatal ==
  (session_file = "malformed" /\ pc \notin {"idle", "launch", "context"}) =>
    (error # "SessionLoadError" /\ "context_fresh" \in trail)

\* C6: within one run the session file is written at most once, only after
\* login was required, the form was submitted and the re-check found no
\* login indicator, and before any navigation to the challenge page; no
\* other step touches the session file.
C6_SessionPersistence ==
  [][(session_writes' # session_writes \/ session_file' # session_file) =>
       /\ session_writes = 0
       /\ session_writes' = 1
       /\ session_file' = "valid"
       /\ {"login_required", "submitted"} \subseteq trail
       /\ "still_required" \notin trail
       /\ error = "none"
       /\ trail' \cap AfterLogin = {}]_vars

C6_Witness ==
  /\ session_writes = 1
  /\ "session_saved" \in trail
  /\ "challenge" \in trail

\* C7: when a login indicator is detected and the username or the password
\* is absent after the config lookup, run() raises without filling or
\* submitting the form, writing the session file, navigating, extracting or
\* writing the output file.
C7_MissingCredentialsFatal ==
  ("login_required" \in trail /\ MissingCredentials) =>
    /\ pc \in {"finally", "raised"}
    /\ error # "none"
    /\ trail \cap ({"filled", "submitted", "session_saved"} \cup AfterLogin) = {}
    /\ submits = 0
    /\ session_writes = 0
    /\ output_writes = 0
    /\ data = <<>>

C7_Witness ==
  /\ pc = "raised"
  /\ error = "ValueError"
  /\ "login_required" \in trail
  /\ MissingCredentials

\* C8: the login form is submitted at most once per run, and when a login
\* indicator is still visible after the submit the run aborts with an error:
\* no second submit, no session write, no navigation, no extraction, no
\* output file.
C8_LoginOnce ==
  /\ submits <= 1
  /\ "still_required" \in trail =>
       /\ pc \in {"finally", "raised"}
       /\ error # "none"
       /\ submits = 1
       /\ session_writes = 0
       /\ output_writes = 0
       /\ trail \cap ({"session_saved"} \cup AfterLogin) = {}

C8_Witness ==
  /\ pc = "raised"
  /\ error = "LoginFailed"
  /\ "still_required" \in trail
  /\ submits = 1

\* C9: when no login indicator is visible after the initial page load, run()
\* fills nothing, submits nothing and writes no session file, and goes on to
\* navigation and extraction whether or not credentials are available.
C9_AuthGateSkipped ==
  "login_not_required" \in trail =>
    /\ trail \cap {"login_required", "filled", "submitted", "session_saved"} = {}
    /\ submits = 0
    /\ session_writes = 0
    /\ error \notin {"ValueError", "LoginFailed"}
    /\ "challenge" \notin trail =>
         (pc = "challenge" \/ error \in {"NavigationError", "CloseError"})

C9_Witness ==
  /\ "login_not_required" \in trail
  /\ MissingCredentials
  /\ "extracted" \in trail
  /\ pc = "returned"

\* C10: when the config file is absent or does not parse, _load_config
\* yields the empty mapping, run() does not raise because of the config,
\* the credentials used are exactly the explicit arguments, and with a
\* credential absent the run fails for that only if login is required.
C10_ConfigNonFatal ==
  config_file.state \in {"absent", "invalid"} =>
    /\ _load_config(config_file) = EmptyMapping
    /\ username = arg_username
    /\ password = arg_password
    /\ error # "JSONDecodeError"
    /\ pc # "idle"
    /\ "launched" \notin trail => (pc = "launch" /\ error = "none")
    /\ error = "ValueError" => "login_required" \in trail

C10_Witness ==
  /\ config_file.state = "invalid"
  /\ arg_username = None
  /\ "login_not_required" \in trail
  /\ pc = "returned"

\* C11: for every input string x, strings of blanks and strings with tabs
\* included, _clean_value(_clean_value(x)) is defined and equals
\* _clean_value(x).
C11_Idempotent ==
  /\ ~clean_raised
  /\ Len(clean_out) = 2 => clean_out[2] = clean_out[1]

\* the result C12 describes: the value itself when it holds no whitespace,
\* else the first token with a digit or a leading dollar sign, else the
\* first token
HasWhitespace(value) == \E i \in 1..Len(value) : IsSpace(value[i])
FirstQualifying(parts) ==
  LET hits == {i \in 1..Len(parts) : LooksLikeValue(parts[i])}
  IN IF hits # {} THEN parts[CHOOSE i \in hits : \A j \in hits : i <= j] ELSE parts[1]

\* C12: _clean_value returns the value unchanged when it contains no
\* whitespace, and otherwise the first whitespace-separated token that
\* contains a digit or starts with a currency symbol, or the first token
\* when none qualifies (the id "4 u" giving "4").
C12_NormalizationResult ==
  (Len(clean_out) >= 1 /\ (HasWhitespace(clean_x) => split(clean_x) # <<>>)) =>
    clean_out[1] = (IF HasWhitespace(clean_x) THEN FirstQualifying(split(clean_x))
                                              ELSE clean_x)

\* the cards of a batch that are new and unique: complete, with an id that is
\* neither stored yet nor carried by an earlier card of the batch
RECURSIVE FreshCards(_, _)
FreshCards(list, ids) ==
  IF list = <<>> THEN <<>>
  ELSE LET id == _clean_value(Head(list).id)
       IN IF id \in ids
            THEN FreshCards(Tail(list), ids)
            ELSE <<Head(list)>> \o FreshCards(Tail(list), ids \cup {id})

BatchMerged == pc = "batch" /\ pc' \in {"scroll", "loop_done"}

\* C13: when a batch offers more new unique cards than the remaining capacity
\* (ceiling minus stored count), exactly the first (ceiling - stored) of them
\* in card order are accepted, the stored count equals the ceiling, and the
\* loop stops as LimitReached: no scroll and no extraction follows.
C13_LimitMidBatch ==
  [][/\ BatchMerged =>
          LET fresh == FreshCards(PageEvaluate(cards'), extracted_ids)
              room == max_products - Len(data)
          IN (max_products # NoneInt /\ Len(fresh) > room) =>
               /\ data' = data \o [i \in 1..room |-> CleanProduct(fresh[i])]
               /\ Len(data') = max_products
               /\ pc' = "loop_done"
     /\ pc = "loop_done" => pc' = "export"]_vars

\* C14: the consecutive-empty-batch counter counts the most recent batches
\* that accepted no record (a batch accepting a record resets it to 0) and
\* nothing but a batch or the start of the extraction changes it; once it is
\* 3 the loop stops whatever the no-growth counter is, and no batch is
\* extracted with the counter at 3.
C14_Convergence ==
  [][/\ BatchMerged =>
          no_new_items_count' = (IF Len(data') = Len(data) THEN no_new_items_count + 1 ELSE 0)
     /\ (~BatchMerged /\ pc # "extract") => no_new_items_count' = no_new_items_count
     /\ pc' = "loop" /\ pc = "extract" => no_new_items_count' = 0
     /\ pc = "batch" => no_new_items_count < max_no_new_items
     /\ (pc = "loop" /\ no_new_items_count = max_no_new_items) => pc' = "loop_done"
    ]_vars

\* three empty batches in a row, the height changing after every scroll: the
\* loop is over with the no-growth counter at 0
C14_Witness ==
  /\ pc = "loop_done"
  /\ no_new_items_count = max_no_new_items
  /\ scroll_attempts = 0
  /\ ~LimitReached(Len(data), max_products)
  /\ Len(data) > 0

IsPrefix(s, t) == Len(s) <= Len(t) /\ SubSeq(t, 1, Len(s)) = s

\* C15: records are only ever appended to self.data: at every step the
\* earlier contents are a prefix of the later contents (nothing is removed,
\* reordered or modified), and the exported sequence is self.data, in
\* acceptance order, as it is when the run ends.
C15_OrderPreserved ==
  [][/\ IsPrefix(data, data')
     /\ output_writes' # output_writes => output_file' = data
     /\ output_writes' > 0 => output_file' = data'
    ]_vars

\* two different records were accepted, exported and returned
C15_Witness ==
  /\ pc = "returned"
  /\ Len(data) = 2
  /\ data[1] # data[2]
  /\ output_file = data

\* C16: when the product grid never becomes visible, _extract_product_data
\* returns without scrolling and without accepting a record, no error leaves
\* it, and run() goes on to export the records accumulated so far (here
\* none) and returns them; an error of such a run comes from the export or
\* from closing the browser.
C16_TimeoutSwallowed ==
  "grid_timeout" \in trail =>
    /\ trail \cap {"grid_visible", "extracted", "scrolled"} = {}
    /\ data = <<>> /\ cards = <<>> /\ iters = 0
    /\ pc \in {"export", "finally", "returned", "raised"}
    /\ pc = "export" => error = "none"
    /\ error \in {"none", "OSError", "CloseError"}
    /\ pc = "returned" => output_writes = 1 /\ output_file = <<>> /\ result = <<>>

\* the grid timed out and the run returned after exporting an empty array
C16_Witness ==
  /\ "grid_timeout" \in trail
  /\ pc = "returned"
  /\ output_writes = 1
  /\ result = <<>>

\* C17: when a step of the run raised an error and closing the browser then
\* fails as well, the error that leaves run() is the error of the step, not
\* the failure of the cleanup.
C17_CleanupNeverMasks ==
  [][(pc = "finally" /\ error # "none") => (pc' = "raised" /\ error' = error)]_vars

\* C18: the output file is written at most once in a run, only after the
\* pagination loop is over, never in a run that raises, and exactly once in
\* a run that returns.
C18_OutputOnce ==
  /\ output_writes <= 1
  /\ output_writes = 1 => "exported" \in trail /\ pc \in {"finally", "returned", "raised"}
  /\ pc = "raised" => output_writes = 0
  /\ pc = "returned" => output_writes = 1

FieldNames == {"name", "id", "price", "mass_kg", "score"}
AllFieldsPresent(r) == \A f \in FieldNames : r[f] # <<>>

\* C19: every record of self.data has its five fields present and non-empty,
\* after normalization too, and every record a batch stores is the
\* normalized form of a rendered card with all five fields: a card with a
\* missing or empty field is never stored.
C19_RecordCompleteness ==
  [][/\ \A i \in 1..Len(data') : AllFieldsPresent(data'[i])
     /\ BatchMerged =>
          \A i \in (Len(data) + 1)..Len(data') :
            \E j \in 1..Len(cards') :
              AllFieldsPresent(cards'[j]) /\ data'[i] = CleanProduct(cards'[j])
    ]_vars

\* a batch rendered a card without price ahead of a complete card: only the
\* complete one was stored
C19_Witness ==
  /\ pc = "scroll"
  /\ Len(cards) = 2
  /\ ~AllFieldsPresent(cards[1])
  /\ AllFieldsPresent(cards[2])
  /\ data = <<CleanProduct(cards[2])>>

\* C20: in each navigation step the candidates are probed in list order, the
\* candidate acted on is the first one that resolves, and once a candidate
\* has resolved no later candidate of the step is probed or clicked, also
\* when the click on the resolved candidate fails.
C20_CascadeWinner ==
  [][(pc = "navigate" /\ nav_candidate' # nav_candidate) =>
       /\ nav_candidate' = nav_candidate + 1
       /\ nav_resolved = 0
       /\ nav_resolved' \in {0, nav_candidate'}
    ]_vars

\* C21: whatever the candidates of a step do (not found, found, click
\* raising), the cascade does not raise; the five steps are taken once each
\* in their fixed order, a step whose candidates all failed is followed by
\* the next step or by the extraction like any other, and at most one click
\* returns per step.
C21_NavigationSoftFailure ==
  [][/\ pc = "navigate" =>
          /\ pc' \in {"navigate", "settle"}
          /\ error' = error /\ nav_step' = nav_step
          /\ pc' = "settle" => (nav_clicked' = 1 \/ nav_candidate' = Candidates[nav_step + 1])
     /\ nav_step' # nav_step => (pc = "settle" /\ nav_step' = nav_step + 1)
     /\ (pc = "settle" /\ pc' # "finally") =>
          pc' = (IF nav_step + 1 = NumSteps THEN "extract" ELSE "navigate")
     /\ pc' = "extract" => (pc = "settle" /\ nav_step' = NumSteps)
     /\ nav_clicked' <= 1
     /\ nav_step' <= NumSteps
    ]_vars

\* every candidate of the last step failed and no error is in flight: the
\* step is about to be left for the extraction
C21_Witness ==
  /\ pc = "settle"
  /\ nav_step = NumSteps - 1
  /\ nav_candidate = Candidates[NumSteps]
  /\ nav_resolved = 0
  /\ nav_clicked = 0
  /\ error = "none"

\* C22: for any sequence of measured heights, growing, equal or shrinking,
\* the no-growth counter scroll_attempts counts the most recent consecutive
\* scrolls that did not increase the height: a scroll that increased the
\* height resets it to 0, any other scroll adds 1, nothing but a scroll or
\* the start of the extraction writes it, and it never exceeds 1000.
C22_NoGrowthCounter ==
  [][/\ (pc = "scroll" /\ pc' = "loop") =>
          scroll_attempts' = (IF last_height' > last_height THEN 0 ELSE scroll_attempts + 1)
     /\ (pc \notin {"scroll", "extract"}) => scroll_attempts' = scroll_attempts
     /\ scroll_attempts' <= max_scroll_attempts
    ]_vars

\* C23: for any sequence of run() calls on one instance, a run's extraction
\* starts with an empty record list and an empty seen-id set, so that what
\* the run returns and exports is what it accepted itself.
C23_ExtractionStateFresh ==
  /\ pc = "extract" => data = <<>>
  /\ (pc = "loop" /\ iters = 0) => (data = <<>> /\ extracted_ids = {})
  /\ pc = "returned" => result = data

\* C24: a username or password passed explicitly to run() is the value used
\* for the login; the config mapping supplies only a credential that was not
\* passed, whatever the arguments and the config contents.
C24_ExplicitCredentialsFirst ==
  pc # "idle" =>
    /\ ~Falsy(arg_username) => username = arg_username
    /\ ~Falsy(arg_password) => password = arg_password

FirstVisible(page) ==
  IF \E i \in Indicators : page[i] = "visible"
    THEN CHOOSE i \in Indicators :
           page[i] = "visible" /\ \A j \in Indicators : page[j] = "visible" => i <= j
    ELSE 4

\* C25: for a fixed page, _is_login_required answers true exactly when at
\* least one of the four indicators is visible, an indicator whose probe
\* raises counting as not visible; probing the indicators in any other order
\* gives the same answer, and the probing stops at the first visible
\* indicator.
C25_OrderIndependent ==
  probe_out # <<>> =>
    /\ probe_out[1].result = (\E i \in Indicators : probe_page[i] = "visible")
    /\ probe_out[1].reordered = probe_out[1].result
    /\ probe_out[1].probes = FirstVisible(probe_page)

\* the first indicator raises, the second is hidden, the third is visible:
\* probed in list order and last indicator first, the answer is true after
\* three probes
C25_Witness ==
  /\ probe_out # <<>>
  /\ probe_page[1] = "raises" /\ probe_page[2] = "hidden" /\ probe_page[3] = "visible"
  /\ probe_order = <<4, 3, 2, 1>>
  /\ probe_out[1].result /\ probe_out[1].reordered
  /\ probe_out[1].probes = 3

====
